---- MODULE Spec2Model ----
(***************************************************************************)
(* The HR salary prediction dashboard (src/dashboard/app1.py) as a state   *)
(* machine.  One process serves a sequence of render cycles; each cycle is *)
(* one top-to-bottom run of the script.  Between cycles only the resource  *)
(* caches (st.cache_resource / st.cache_data) and the widget state of the  *)
(* session survive; every script global is rebound by the next run.        *)
(***************************************************************************)
EXTENDS Integers, Sequences, FiniteSets, TLC

\* Bound of the exploration: the number of script runs in one process.
MaxCycles == 4

\* st.slider("**Age**", min_value=18, max_value=65, value=30)
AgeMin == 18
AgeMax == 65
AgeDefault == 30
\* st.slider("**Years of Experience**", min_value=0, max_value=50, value=5)
ExpMin == 0
ExpMax == 50
ExpDefault == 5
\* data.head(10)
HeadRows == 10

(***************************************************************************)
(* The two artifacts on disk.  A file is either unusable ("missing": not   *)
(* there, corrupt, unreadable) or holds one of the contents below.  The    *)
(* regression model is an opaque artifact; the stand-ins are the stub of   *)
(* the end-to-end scenario, a constant model, and a model whose predict    *)
(* rejects a two-column row (an inference failure).                        *)
(***************************************************************************)
ModelKinds == {"stub", "const", "incompatible"}
ModelFiles == {"missing"} \cup ModelKinds

Row(a, e, s) == [Age |-> a, YearOfExperience |-> e, CurrentSalary |-> s]

DatasetOf(name) ==
    CASE name = "two_rows"  -> << Row(25, 2, 40000), Row(40, 15, 90000) >>
      [] name = "one_row"   -> << Row(30, 5, 50000) >>
      [] name = "zero_mean" -> << Row(25, 2, 0), Row(40, 15, 0) >>

DatasetNames == {"two_rows", "one_row", "zero_mean"}
DataFiles == {"missing"} \cup DatasetNames

\* Values a user may try to give a slider; the widget accepts those in range.
AgeTries == {AgeMin - 1, AgeMin, AgeDefault, AgeMax, AgeMax + 1}
ExpTries == {ExpMin - 1, ExpMin, ExpDefault, ExpMax, ExpMax + 1}

(***************************************************************************)
(* model.predict(rows): one output per input row, or the exception an      *)
(* incompatible model throws.                                              *)
(***************************************************************************)
PredictRow(kind, row) ==
    CASE kind = "stub"  -> 10000 + 2000 * row[2] + 500 * row[1]
      [] kind = "const" -> 60000

Predict(kind, rows) ==
    IF kind = "incompatible"
    THEN [raised |-> TRUE, out |-> << >>]
    ELSE [raised |-> FALSE,
          out |-> [i \in 1..Len(rows) |-> PredictRow(kind, rows[i])]]

(***************************************************************************)
(* Arithmetic and number formatting.                                       *)
(***************************************************************************)
Abs(n) == IF n < 0 THEN -n ELSE n

Min(a, b) == IF a < b THEN a ELSE b

RECURSIVE SumSalary(_)
SumSalary(rows) ==
    IF rows = << >> THEN 0 ELSE Head(rows).CurrentSalary + SumSalary(Tail(rows))

RECURSIVE MaxSalary(_)
MaxSalary(rows) ==
    IF Len(rows) = 1 THEN Head(rows).CurrentSalary
    ELSE LET m == MaxSalary(Tail(rows))
         IN  IF Head(rows).CurrentSalary > m THEN Head(rows).CurrentSalary ELSE m

\* n / d (d > 0) rounded to the nearest integer, ties to even: the rounding
\* of a float format specification.
RoundDiv(n, d) ==
    LET q == n \div d
        r == n % d
    IN  IF 2 * r < d THEN q
        ELSE IF 2 * r > d THEN q + 1
        ELSE IF q % 2 = 0 THEN q ELSE q + 1

Pad(n, width) ==
    IF width = 3 /\ n < 10 THEN "00" \o ToString(n)
    ELSE IF (width = 3 /\ n < 100) \/ (width = 2 /\ n < 10) THEN "0" \o ToString(n)
    ELSE ToString(n)

\* The "," option of a format specification: groups of three digits.
RECURSIVE Grouped(_)
Grouped(n) ==
    IF n < 1000 THEN ToString(n)
    ELSE Grouped(n \div 1000) \o "," \o Pad(n % 1000, 3)

\* f"${x:,.2f}" for x = cents / 100.
Currency(cents) ==
    "$" \o (IF cents < 0 THEN "-" ELSE "") \o Grouped(Abs(cents) \div 100)
        \o "." \o Pad(Abs(cents) % 100, 2)

\* f"{x:+.1f}%" for a finite x = tenths / 10; negative says x < 0 before
\* rounding (a small negative x prints as -0.0).
SignedOneDecimal(tenths, negative) ==
    (IF negative THEN "-" ELSE "+") \o ToString(Abs(tenths) \div 10)
        \o "." \o ToString(Abs(tenths) % 10) \o "%"

\* data['Current Salary'].mean() formatted as currency.
MeanCurrency(rows) == Currency(RoundDiv(SumSalary(rows) * 100, Len(rows)))

\* The deviation taken as mean - prediction.
DiffPercentReversed(prediction, rows) ==
    LET s == SumSalary(rows)
        num == (s - prediction * Len(rows)) * 1000
    IN  IF s = 0 THEN "+inf%"
        ELSE SignedOneDecimal(RoundDiv(num * (IF s < 0 THEN -1 ELSE 1), Abs(s)),
                              (num < 0) # (s < 0) /\ num # 0)

\* diff_percent = ((prediction - mean) / mean) * 100 and its f"{...:+.1f}%".
\* mean = sum / n, so the quotient is (prediction * n - sum) / sum.  The
\* operands are numpy float64 scalars: a zero mean gives inf, -inf or nan
\* (with a RuntimeWarning), no exception.
DiffPercent(prediction, rows) ==
    LET s == SumSalary(rows)
        num == (prediction * Len(rows) - s) * 1000
    IN  IF s = 0
        THEN (IF num > 0 THEN "+inf%" ELSE IF num < 0 THEN "-inf%" ELSE "+nan%")
        ELSE SignedOneDecimal(RoundDiv(num * (IF s < 0 THEN -1 ELSE 1), Abs(s)),
                              (num < 0) # (s < 0) /\ num # 0)

(***************************************************************************)
(* Resource Loader.  A cache entry is empty or holds what the first        *)
(* successful call produced.  st.cache_resource keeps the returned object  *)
(* itself and hands that same object to every later call; st.cache_data    *)
(* keeps the serialized return value and hands every call a fresh copy     *)
(* deserialized from it.  Neither stores anything when the function        *)
(* raises.  Objects are identified by the cycle that created them.         *)
(***************************************************************************)
EmptyModelCache == [full |-> FALSE, id |-> 0, kind |-> "none"]
EmptyDataCache == [full |-> FALSE, rows |-> << >>]

Unbound == [bound |-> FALSE, id |-> 0, kind |-> "none", rows |-> << >>]
ModelObj(id, kind) == [bound |-> TRUE, id |-> id, kind |-> kind, rows |-> << >>]
DataObj(id, rows) == [bound |-> TRUE, id |-> id, kind |-> "dataframe", rows |-> rows]

\* A load_model() that runs joblib.load on every call.
load_model_uncached(cache, file, cyc) ==
    IF file = "missing"
    THEN [ok |-> FALSE, obj |-> Unbound, cache |-> cache, read |-> TRUE]
    ELSE [ok |-> TRUE, obj |-> ModelObj(cyc, file),
          cache |-> [full |-> TRUE, id |-> cyc, kind |-> file], read |-> TRUE]

\* A load_model() whose cache also records a failed load.
load_model_caching_failure(cache, file, cyc) ==
    IF cache.full
    THEN [ok |-> cache.kind # "missing", obj |-> ModelObj(cache.id, cache.kind),
          cache |-> cache, read |-> FALSE]
    ELSE [ok |-> file # "missing", obj |-> ModelObj(cyc, file),
          cache |-> [full |-> TRUE, id |-> cyc, kind |-> file], read |-> TRUE]

\* @st.cache_resource def load_model(): return joblib.load(...)
load_model(cache, file, cyc) ==
    IF cache.full
    THEN [ok |-> TRUE, obj |-> ModelObj(cache.id, cache.kind),
          cache |-> cache, read |-> FALSE]
    ELSE IF file = "missing"
    THEN [ok |-> FALSE, obj |-> Unbound, cache |-> cache, read |-> TRUE]
    ELSE [ok |-> TRUE, obj |-> ModelObj(cyc, file),
          cache |-> [full |-> TRUE, id |-> cyc, kind |-> file], read |-> TRUE]

\* A load_data() that runs pd.read_excel on every call.
load_data_uncached(cache, file, cyc) ==
    IF file = "missing"
    THEN [ok |-> FALSE, obj |-> Unbound, cache |-> cache, read |-> TRUE]
    ELSE [ok |-> TRUE, obj |-> DataObj(cyc, DatasetOf(file)),
          cache |-> [full |-> TRUE, rows |-> DatasetOf(file)], read |-> TRUE]

\* @st.cache_data def load_data(): return pd.read_excel(...)
load_data(cache, file, cyc) ==
    IF cache.full
    THEN [ok |-> TRUE, obj |-> DataObj(cyc, cache.rows),
          cache |-> cache, read |-> FALSE]
    ELSE IF file = "missing"
    THEN [ok |-> FALSE, obj |-> Unbound, cache |-> cache, read |-> TRUE]
    ELSE [ok |-> TRUE, obj |-> DataObj(cyc, DatasetOf(file)),
          cache |-> [full |-> TRUE, rows |-> DatasetOf(file)], read |-> TRUE]

Call(fn, r) == [fn |-> fn, read |-> r.read, raised |-> ~r.ok]

\* A loader with one try block per resource: the dataset load is attempted
\* even when the model load raised.
LoadResourcesSeparately(cm, cd, mf, df, cyc) ==
    LET lm == load_model(cm, mf, cyc)
        ld == load_data(cd, df, cyc)
    IN  [ok |-> lm.ok /\ ld.ok, model |-> lm.obj, data |-> ld.obj,
         cacheModel |-> lm.cache, cacheData |-> ld.cache,
         calls |-> << Call("load_model", lm), Call("load_data", ld) >>]

\* try: model = load_model(); data = load_data()
\* except Exception as e: st.error(...); st.stop()
LoadResources(cm, cd, mf, df, cyc) ==
    LET lm == load_model(cm, mf, cyc)
        ld == load_data(cd, df, cyc)
    IN  IF ~lm.ok
        THEN [ok |-> FALSE, model |-> Unbound, data |-> Unbound,
              cacheModel |-> lm.cache, cacheData |-> cd,
              calls |-> << Call("load_model", lm) >>]
        ELSE [ok |-> ld.ok, model |-> lm.obj, data |-> ld.obj,
              cacheModel |-> lm.cache, cacheData |-> ld.cache,
              calls |-> << Call("load_model", lm), Call("load_data", ld) >>]

(***************************************************************************)
(* Input Collector.                                                        *)
(***************************************************************************)
\* A slider hands the script a value of its domain only.
SliderAccepts(lo, hi, v) == lo <= v /\ v <= hi

\* A button that stays asserted once pressed (a toggle).
st_button_sticky(pressed, previous) == pressed \/ previous

\* st.button(...): True only in the run its press caused.
st_button(pressed, previous) == pressed

\* A feature row with the columns swapped.
InputDataSwapped(age, experience) == << << experience, age >> >>

\* input_data = np.array([[age, experience]])
InputData(age, experience) == << << age, experience >> >>

(***************************************************************************)
(* Prediction & Visualization Renderer.  What a cycle shows is the         *)
(* sequence of elements the script emitted, in emission order.             *)
(***************************************************************************)
Elem(kind) == [kind |-> kind]
Text(kind, text) == [kind |-> kind, text |-> text]

\* The overlay of plot B drawn at the experience instead of the age.
Fig2OverlayAtExperience(age, experience, prediction) == << experience, prediction >>

\* fig2.add_trace(go.Scatter(x=[age], y=[prediction], ...))
Fig2Overlay(age, experience, prediction) == << age, prediction >>

\* fig1.add_trace(go.Scatter(x=[experience], y=[prediction], ...))
Fig1Overlay(age, experience, prediction) == << experience, prediction >>

\* with st.sidebar: the two sliders, the model information, the button.
Sidebar(age, experience, data) ==
    << [kind |-> "slider_age", value |-> age],
       [kind |-> "slider_experience", value |-> experience],
       Text("metric_training_samples", Grouped(Len(data.rows))),
       Text("metric_features", "2 (Age, Experience)"),
       Elem("button") >>

\* if predict_btn: the body of the branch.
MainContent(model, data, age, experience) ==
    LET input_data == InputData(age, experience)
        result == Predict(model.kind, input_data)
        prediction == result.out[1]
    IN  IF result.raised
        THEN [raised |-> TRUE, elems |-> << >>,
              calls |-> << [rows |-> input_data, raised |-> TRUE, out |-> << >>] >>]
        ELSE [raised |-> FALSE,
              calls |-> << [rows |-> input_data, raised |-> FALSE,
                            out |-> result.out] >>,
              elems |->
                << [kind |-> "prediction_card",
                    salary |-> Currency(prediction * 100),
                    age |-> age, experience |-> experience],
                   Elem("divider"),
                   [kind |-> "plot_experience",
                    base |-> [i \in 1..Len(data.rows) |->
                                << data.rows[i].YearOfExperience,
                                   data.rows[i].CurrentSalary >>],
                    overlay |-> Fig1Overlay(age, experience, prediction)],
                   [kind |-> "plot_age",
                    base |-> [i \in 1..Len(data.rows) |->
                                << data.rows[i].Age, data.rows[i].CurrentSalary >>],
                    overlay |-> Fig2Overlay(age, experience, prediction)],
                   Elem("quick_statistics"),
                   Text("metric_mean", MeanCurrency(data.rows)),
                   Text("metric_max", Currency(MaxSalary(data.rows) * 100)),
                   Text("metric_predicted", Currency(prediction * 100)),
                   Text("metric_vs_mean", DiffPercent(prediction, data.rows)) >>]

\* st.markdown("---"); with st.expander("Dataset Overview"): the three tabs.
DatasetPreview(data) ==
    << Elem("divider"),
       [kind |-> "dataset_overview",
        head |-> SubSeq(data.rows, 1, Min(HeadRows, Len(data.rows))),
        mean |-> MeanCurrency(data.rows),
        records |-> Len(data.rows),
        columns |-> 3] >>

\* A page whose dataset overview sits in the else branch of the trigger.
PageBodyElse(predict_btn, main, preview) ==
    IF predict_btn THEN main ELSE preview

\* if predict_btn: <main content>, then the dataset preview section.
PageBody(predict_btn, main, preview) ==
    IF predict_btn THEN main \o preview ELSE preview

\* One run of the script, top to bottom.  pressed: the run was caused by a
\* press of the button; previous: the button's value in the run before.
Script(lr, age, experience, pressed, previous) ==
    IF ~lr.ok
    THEN [outcome |-> "stopped", predict_btn |-> FALSE, predictCalls |-> << >>,
          rendered |-> << Elem("style"), Elem("error") >>]
    ELSE LET top == << Elem("style"), Elem("header") >>
                    \o Sidebar(age, experience, lr.data)
             btn == st_button(pressed, previous)
             mc == MainContent(lr.model, lr.data, age, experience)
         IN  IF btn /\ mc.raised
             THEN [outcome |-> "exception", predict_btn |-> btn,
                   predictCalls |-> mc.calls,
                   rendered |-> top \o << Elem("uncaught_exception") >>]
             ELSE [outcome |-> "ok", predict_btn |-> btn,
                   predictCalls |-> IF btn THEN mc.calls ELSE << >>,
                   rendered |-> top
                       \o PageBody(btn, mc.elems, DatasetPreview(lr.data))
                       \o << Elem("footer") >>]

(***************************************************************************)
(* State.                                                                  *)
(***************************************************************************)
VARIABLES
    modelFile,     \* gradient_boosting_model.pkl on disk
    dataFile,      \* salary_dataset.xlsx on disk
    cacheModel,    \* the st.cache_resource entry of load_model
    cacheData,     \* the st.cache_data entry of load_data
    age,           \* widget state of the age slider
    experience,    \* widget state of the experience slider
    predict_btn,   \* the button's value in the latest run
    previous_btn,  \* the button's value the session held before that run
    cycle,         \* script runs so far
    cause,         \* what caused the latest run
    model,         \* the script global model of the latest run
    data,          \* the script global data of the latest run
    outcome,       \* how the latest run ended
    rendered,      \* what the latest run showed
    loadCalls,     \* the loader calls of the latest run
    predictCalls,  \* the model.predict calls of the latest run
    reads,         \* executions of joblib.load / pd.read_excel so far
    okReads,       \* those that returned
    modelIds,      \* every instance ever bound to model
    dataIds,       \* every instance ever bound to data
    dataVals       \* every value ever bound to data

vars == << modelFile, dataFile, cacheModel, cacheData, age, experience,
           predict_btn, previous_btn, cycle, cause, model, data, outcome, rendered,
           loadCalls, predictCalls, reads, okReads, modelIds, dataIds, dataVals >>

files == << modelFile, dataFile >>
process == << cacheModel, cacheData, age, experience, predict_btn,
              previous_btn, cycle, cause,
              model, data, outcome, rendered, loadCalls, predictCalls, reads,
              okReads, modelIds, dataIds, dataVals >>

Init ==
    /\ modelFile \in ModelFiles
    /\ dataFile \in DataFiles
    /\ cacheModel = EmptyModelCache
    /\ cacheData = EmptyDataCache
    /\ age = AgeDefault
    /\ experience = ExpDefault
    /\ predict_btn = FALSE
    /\ previous_btn = FALSE
    /\ cycle = 0
    /\ cause = "none"
    /\ model = Unbound
    /\ data = Unbound
    /\ outcome = "none"
    /\ rendered = << >>
    /\ loadCalls = << >>
    /\ predictCalls = << >>
    /\ reads = [load_model |-> 0, load_data |-> 0]
    /\ okReads = [load_model |-> 0, load_data |-> 0]
    /\ modelIds = {}
    /\ dataIds = {}
    /\ dataVals = {}

(***************************************************************************)
(* Operations.  Every user interaction re-executes the whole script.       *)
(***************************************************************************)
CountCalls(calls, fn, okOnly) ==
    Cardinality({i \in 1..Len(calls) :
                    /\ calls[i].fn = fn
                    /\ calls[i].read
                    /\ (okOnly => ~calls[i].raised)})

OnScreen(kind) == \E i \in 1..Len(rendered) : rendered[i].kind = kind

\* One render cycle with the given widget state.
Run(newAge, newExperience, pressed, previous, why) ==
    /\ cycle < MaxCycles
    /\ LET lr == LoadResources(cacheModel, cacheData, modelFile, dataFile, cycle + 1)
           s == Script(lr, newAge, newExperience, pressed, previous)
       IN  /\ cycle' = cycle + 1
           /\ cause' = why
           /\ cacheModel' = lr.cacheModel
           /\ cacheData' = lr.cacheData
           /\ model' = lr.model
           /\ data' = lr.data
           /\ loadCalls' = lr.calls
           /\ age' = newAge
           /\ experience' = newExperience
           /\ predict_btn' = s.predict_btn
           /\ previous_btn' = previous
           /\ outcome' = s.outcome
           /\ rendered' = s.rendered
           /\ predictCalls' = s.predictCalls
           /\ reads' = [f \in {"load_model", "load_data"} |->
                           reads[f] + CountCalls(lr.calls, f, FALSE)]
           /\ okReads' = [f \in {"load_model", "load_data"} |->
                             okReads[f] + CountCalls(lr.calls, f, TRUE)]
           /\ modelIds' = modelIds \cup (IF lr.model.bound THEN {lr.model.id} ELSE {})
           /\ dataIds' = dataIds \cup (IF lr.data.bound THEN {lr.data.id} ELSE {})
           /\ dataVals' = dataVals \cup (IF lr.data.bound THEN {lr.data.rows} ELSE {})
    /\ UNCHANGED files

\* A browser opens (or reloads) the page: a new session, widgets at their
\* defaults, the button not pressed.
OpenPage == Run(AgeDefault, ExpDefault, FALSE, FALSE, "open")

\* The user moves the age slider.
ChangeAge(v) ==
    /\ OnScreen("slider_age")
    /\ SliderAccepts(AgeMin, AgeMax, v)
    /\ v # age
    /\ Run(v, experience, FALSE, predict_btn, "slider")

\* The user moves the experience slider.
ChangeExperience(v) ==
    /\ OnScreen("slider_experience")
    /\ SliderAccepts(ExpMin, ExpMax, v)
    /\ v # experience
    /\ Run(age, v, FALSE, predict_btn, "slider")

\* The user presses the predict button.
PressButton ==
    /\ OnScreen("button")
    /\ Run(age, experience, TRUE, predict_btn, "button")

\* The environment replaces, removes or restores an artifact on disk.
ReplaceModelFile(f) ==
    /\ f # modelFile
    /\ modelFile' = f
    /\ UNCHANGED << dataFile, process >>

ReplaceDataFile(f) ==
    /\ f # dataFile
    /\ dataFile' = f
    /\ UNCHANGED << modelFile, process >>

Next ==
    \/ OpenPage
    \/ \E v \in AgeTries : ChangeAge(v)
    \/ \E v \in ExpTries : ChangeExperience(v)
    \/ PressButton
    \/ \E f \in ModelFiles : ReplaceModelFile(f)
    \/ \E f \in DataFiles : ReplaceDataFile(f)

Spec == Init /\ [][Next]_vars

(***************************************************************************)
(* Observations used by the properties.                                    *)
(***************************************************************************)
Kinds == [i \in 1..Len(rendered) |-> rendered[i].kind]

PanelKinds ==
    {"prediction_card", "plot_experience", "plot_age", "metric_mean",
     "metric_max", "metric_predicted", "metric_vs_mean", "dataset_overview"}

IsPanel(k) == k \in PanelKinds

\* The panels of the latest cycle, in the order they were rendered.
Panels == SelectSeq(Kinds, IsPanel)

PredictionPanels ==
    << "prediction_card", "plot_experience", "plot_age", "metric_mean",
       "metric_max", "metric_predicted", "metric_vs_mean" >>

Shown(kind) == rendered[CHOOSE i \in 1..Len(rendered) : rendered[i].kind = kind]

LoadFailed == \E i \in 1..Len(loadCalls) : loadCalls[i].raised

\* The latest cycle ran and both resources were bound.
LoadSucceeded == cycle > 0 /\ ~LoadFailed

Triggered == LoadSucceeded /\ predict_btn

(***************************************************************************)
(* C1: once a load of a resource has succeeded, no later render cycle      *)
(* executes the file read of that resource again, and no file is read      *)
(* successfully more than once in the process.                             *)
(***************************************************************************)
C1_ReadOncePerProcess ==
    [][\A f \in {"load_model", "load_data"} :
          /\ okReads[f] >= 1 => reads'[f] = reads[f]
          /\ okReads'[f] <= 1]_vars

C1_Witness ==
    /\ cycle >= 3
    /\ reads = [load_model |-> 1, load_data |-> 1]
    /\ okReads = [load_model |-> 1, load_data |-> 1]
    /\ modelFile = "missing"
    /\ dataFile = "missing"
    /\ outcome = "ok"

C3_TriggerGatesPanels ==
    LoadSucceeded =>
        IF predict_btn
        THEN Panels = PredictionPanels \o << "dataset_overview" >>
        ELSE predictCalls = << >> /\ Panels = << "dataset_overview" >>

(***************************************************************************)
(* C3 amended: as stated when the trigger is false or predict returns; in  *)
(* a triggered cycle whose predict raises, the cycle ends at the call and  *)
(* no panel is rendered, the dataset overview included.                    *)
(***************************************************************************)
C3_TriggerGatesPanelsUnlessPredictRaises ==
    LoadSucceeded =>
        /\ ~predict_btn => predictCalls = << >> /\ Panels = << "dataset_overview" >>
        /\ (predict_btn /\ ~predictCalls[1].raised) =>
              Panels = PredictionPanels \o << "dataset_overview" >>
        /\ (predict_btn /\ predictCalls[1].raised) => Panels = << >>

C3_Witness ==
    /\ LoadSucceeded
    /\ predict_btn
    /\ ~predictCalls[1].raised
    /\ Panels = PredictionPanels \o << "dataset_overview" >>

(***************************************************************************)
(* C4: a cycle in which load_model() or load_data() raises shows the error *)
(* message and nothing of the page after it (no slider, button, panel or   *)
(* metric), calls predict never, calls each loader at most once, and does  *)
(* not call load_data() when load_model() is the one that raised.          *)
(***************************************************************************)
C4_LoadFailureAborts ==
    LoadFailed =>
        /\ Kinds = << "style", "error" >>
        /\ predictCalls = << >>
        /\ \A i, j \in 1..Len(loadCalls) : loadCalls[i].fn = loadCalls[j].fn => i = j
        /\ loadCalls[1].fn = "load_model"
        /\ loadCalls[1].raised => Len(loadCalls) = 1

C4_Witness ==
    /\ LoadFailed
    /\ loadCalls[1].raised
    /\ dataFile # "missing"
    /\ OnScreen("error")

(***************************************************************************)
(* C5: every predict call of a cycle receives exactly one row, the row is  *)
(* [age, experience] with that cycle's slider values in that order, age is *)
(* an integer of 18..65 and experience one of 0..50, a page just opened    *)
(* has the sliders at 30 and 5, and the prediction shown is the first      *)
(* element of what predict returned.                                       *)
(***************************************************************************)
C5_PredictInput ==
    /\ cause = "open" => age = 30 /\ experience = 5
    /\ \A i \in 1..Len(predictCalls) :
          LET call == predictCalls[i]
          IN  /\ Len(call.rows) = 1
              /\ call.rows[1] = << age, experience >>
              /\ call.rows[1][1] \in 18..65
              /\ call.rows[1][2] \in 0..50
              /\ ~call.raised =>
                    /\ Len(call.out) = 1
                    /\ Shown("prediction_card").salary = Currency(call.out[1] * 100)

C5_Witness ==
    /\ Len(predictCalls) = 1
    /\ predictCalls[1].rows = << << 65, 0 >> >>
    /\ ~predictCalls[1].raised
    /\ OnScreen("prediction_card")

(***************************************************************************)
(* C6: in a triggered cycle over a dataset whose mean salary is not zero   *)
(* (salaries are not negative, so the mean is positive),                   *)
(* the Vs Mean metric is (prediction - mean) / mean * 100 rounded to one   *)
(* decimal place and printed with its sign; mean 50000 and prediction      *)
(* 60000 give +20.0%; salaries 40000 and 90000 with age 30, experience 5   *)
(* and the stub model give the prediction 35000 and -46.2%.                *)
(***************************************************************************)
C6_VsMean ==
    (Triggered /\ outcome = "ok" /\ SumSalary(data.rows) > 0) =>
        LET p == predictCalls[1].out[1]
            n == Len(data.rows)
            s == SumSalary(data.rows)
            \* (p - s/n) / (s/n) * 100 in tenths is x / s
            x == (p * n - s) * 1000
            q == x \div s
            shown == Shown("metric_vs_mean").text
        IN  /\ \E t \in {q, q + 1} :
                  /\ 2 * Abs(t * s - x) <= s
                  /\ shown = SignedOneDecimal(t, x < 0)
            /\ (s = 50000 * n /\ p = 60000) => shown = "+20.0%"
            /\ (data.rows = << Row(25, 2, 40000), Row(40, 15, 90000) >>
                  /\ model.kind = "stub" /\ age = 30 /\ experience = 5) =>
                  /\ p = 35000
                  /\ Shown("prediction_card").salary = "$35,000.00"
                  /\ shown = "-46.2%"

C6_Witness ==
    /\ Triggered
    /\ outcome = "ok"
    /\ data.rows = << Row(25, 2, 40000), Row(40, 15, 90000) >>
    /\ model.kind = "stub"
    /\ age = 30
    /\ experience = 5
    /\ Shown("metric_vs_mean").text = "-46.2%"

(***************************************************************************)
(* C7: in a triggered cycle over a dataset whose mean salary is zero, the  *)
(* cycle completes through the dataset overview and the Vs Mean metric is  *)
(* a not-applicable fallback, not the rendering of a non-finite quotient.  *)
(***************************************************************************)
NonFiniteTexts == {"+inf%", "-inf%", "+nan%", "-nan%"}

C7_ZeroMeanFallback ==
    (Triggered /\ ~predictCalls[1].raised /\ SumSalary(data.rows) = 0) =>
        /\ outcome = "ok"
        /\ OnScreen("dataset_overview")
        /\ OnScreen("metric_vs_mean")
        /\ Shown("metric_vs_mean").text \notin NonFiniteTexts

(***************************************************************************)
(* C8: no render cycle, failing or not, changes or drops a cache entry     *)
(* that was filled before it; a load that raises leaves its cache entry    *)
(* empty, so that the next cycle executes the file read again; and a cycle *)
(* in which no load and no predict call raises ends normally, with the     *)
(* dataset overview and the footer rendered, whatever cycles failed before *)
(* it.                                                                     *)
(***************************************************************************)
C8_FailureIsPerCycle ==
    [][/\ cacheModel.full => cacheModel' = cacheModel
       /\ cacheData.full => cacheData' = cacheData
       /\ \A i \in 1..Len(loadCalls') :
             loadCalls'[i].raised =>
                 IF loadCalls'[i].fn = "load_model"
                 THEN cacheModel' = EmptyModelCache
                 ELSE cacheData' = EmptyDataCache
       /\ (cycle' # cycle /\ ~cacheModel.full) =>
             loadCalls'[1].fn = "load_model" /\ loadCalls'[1].read
       /\ (cycle' # cycle /\ ~cacheData.full /\ Len(loadCalls') = 2) =>
             loadCalls'[2].fn = "load_data" /\ loadCalls'[2].read
       /\ (/\ cycle' # cycle
           /\ \A i \in 1..Len(loadCalls') : ~loadCalls'[i].raised
           /\ \A i \in 1..Len(predictCalls') : ~predictCalls'[i].raised) =>
             /\ outcome' = "ok"
             /\ Len(rendered') >= 2
             /\ rendered'[Len(rendered') - 1].kind = "dataset_overview"
             /\ rendered'[Len(rendered')].kind = "footer"]_vars

\* A load failed in an earlier cycle, a later cycle loaded both resources,
\* and the latest cycle, after an inference failure, rendered normally
\* from the entries cached before.
C8_Witness ==
    /\ outcome = "ok"
    /\ cacheModel.full
    /\ cacheModel.kind = "incompatible"
    /\ cacheModel.id < cycle
    /\ reads.load_model = 2
    /\ okReads.load_model = 1
    /\ cause = "slider"
    /\ previous_btn

(***************************************************************************)
(* C9: every user interaction is one more run of the script; the trigger   *)
(* is true only in a cycle caused by a press of the button; a cycle caused *)
(* by a slider change, also one that follows a triggered cycle, has the    *)
(* trigger false, calls predict never and shows no prediction card, plot   *)
(* or summary metric.                                                      *)
(***************************************************************************)
C9_TriggerIsEdge ==
    /\ [](predict_btn => cause = "button")
    /\ [](cause = "slider" =>
            /\ ~predict_btn
            /\ predictCalls = << >>
            /\ \A i \in 1..Len(PredictionPanels) : ~OnScreen(PredictionPanels[i]))
    /\ [][(age' # age \/ experience' # experience \/ predict_btn' # predict_btn
              \/ rendered' # rendered) =>
                 /\ cycle' = cycle + 1
                 /\ rendered'[1].kind = "style"]_vars

C9_Witness ==
    /\ cause = "slider"
    /\ previous_btn
    /\ ~predict_btn
    /\ outcome = "ok"
    /\ Panels = << "dataset_overview" >>

(***************************************************************************)
(* C10: a triggered cycle calls predict exactly once, and when the call    *)
(* returns, the prediction card, the overlay of the experience plot, the   *)
(* overlay of the age plot, the Predicted Salary metric and the Vs Mean    *)
(* metric all show that call's result with the cycle's age and experience. *)
(***************************************************************************)
C10_OnePredictionEverywhere ==
    Triggered =>
        /\ Len(predictCalls) = 1
        /\ ~predictCalls[1].raised =>
              LET p == predictCalls[1].out[1]
              IN  /\ predictCalls[1].rows = << << age, experience >> >>
                  /\ Shown("prediction_card").salary = Currency(p * 100)
                  /\ Shown("prediction_card").age = age
                  /\ Shown("prediction_card").experience = experience
                  /\ Shown("plot_experience").overlay = << experience, p >>
                  /\ Shown("plot_age").overlay = << age, p >>
                  /\ Shown("metric_predicted").text = Currency(p * 100)
                  /\ Shown("metric_vs_mean").text = DiffPercent(p, data.rows)

C10_Witness ==
    /\ Triggered
    /\ outcome = "ok"
    /\ age = 65
    /\ experience = 50
    /\ Shown("plot_age").overlay = << 65, 142500 >>
    /\ Shown("plot_experience").overlay = << 50, 142500 >>
    /\ Shown("prediction_card").salary = "$142,500.00"

====
